---------------------------- MODULE Spec2Model ----------------------------
(***************************************************************************)
(* A model of compute_results.py: the reader of Oscar 2013 particle lists  *)
(* (SMASH or BHAC-QGP flavour) that accumulates dN/dy, dN/dpT, v1 and v2    *)
(* histograms event by event, file by file, and pickles the run totals.    *)
(*                                                                         *)
(* Numbers.  Momenta are integers in units of 0.01 GeV; v1 and v2 are      *)
(* integers in units of 0.001.  The float64 arithmetic of the script is    *)
(* reproduced exactly for every sample momentum used below, all of which   *)
(* lie strictly inside a bin (never on a bin edge).                        *)
(* A histogram np.zeros((nh,n,3)) is represented by the function from the  *)
(* touched <<hadron_index, bin>> pairs to <<dN, v1, v2>>; every absent     *)
(* pair is the all-zero triple.  A touched entry has dN >= 1, so two       *)
(* arrays are equal exactly when their representations are equal.          *)
(***************************************************************************)
EXTENDS Integers, Sequences, FiniteSets, TLC

(***************************************************************************)
(* Bounds of the model.                                                    *)
(***************************************************************************)
\* input files of a run
MaxFiles == 2

\* lines of each input file of a run of several files
MaxRunLines == 3

\* lines of the input file of a run of one file
MaxLines == 4

\* lines of the input file of a run over particle lines only
MaxHalfExtent == 51

MaxWidth == 2

MaxBinLines == 4

(***************************************************************************)
(* Module-level configuration of the script (lines 26-45, 94-122).         *)
(***************************************************************************)
\* rap_cut = 1000 (units of rapidity)
rap_cut == 1000

\* pT_min_cut = 0. (0.01 GeV)
pT_min_cut == 0

\* pT_max_cut = 1000 GeV, in units of 0.01 GeV
pT_max_cut == 100000

\* pT_resolution = 0.1 GeV, in units of 0.01 GeV
pT_resolution == 10

dpT == pT_resolution

\* ny = int(2*max_rapidity/dy) + 1 with max_rapidity = 5.1 and dy = 0.2:
\* in float64 2*5.1/0.2 = 50.99999999999999, so ny = 51
ny == 51

\* npT = int(max_pT/pT_resolution) = int(4/0.1) = 40
npT == 40

nh == 9

dN_idx == 0

v1_idx == 1

v2_idx == 2

hadrons ==
    ("211" :> <<0, "pion_plus">>) @@ ("-211" :> <<1, "pion_minus">>) @@
    ("111" :> <<2, "pion_0">>) @@ ("321" :> <<3, "kaon_plus">>) @@
    ("-321" :> <<4, "kaon_minus">>) @@ ("2212" :> <<5, "proton">>) @@
    ("-2212" :> <<6, "anti-proton">>) @@ ("2112" :> <<7, "neutron">>) @@
    ("-2112" :> <<8, "anti-neutron">>)

(***************************************************************************)
(* Text.  A line is the token list iline.split() yields.  np.float64(tok)  *)
(* succeeds on the tokens of Float64Table and raises ValueError on every   *)
(* other token.                                                            *)
(***************************************************************************)
Float64Table ==
    ("0" :> 0) @@ ("0.0" :> 0) @@ ("0.02" :> 2) @@ ("0.35" :> 35) @@
    ("0.38" :> 38) @@ ("0.3" :> 30) @@ ("0.45" :> 45) @@ ("1.2" :> 120) @@
    ("1.6" :> 160) @@ ("1.0" :> 100) @@ ("-1.0" :> -100) @@ ("4.5" :> 450) @@
    ("5.0" :> 500) @@ ("150.01" :> 15001) @@ ("150.0" :> 15000) @@
    ("0.138" :> 14) @@ ("0.938" :> 94)

IsNumeric(tok) == tok \in DOMAIN Float64Table

\* line[0][0] == "#"
StartsWithHash(tok) == tok \in {"#", "#!OSCAR2013"}

\* Python's line[k] (0-based)
At(line, k) == line[k + 1]


(***************************************************************************)
(* State.                                                                  *)
(*   args_type, ninputs   the command line: --type and the number of       *)
(*                        input files                                      *)
(*   pc                   the position of the script                       *)
(*   exit_status          the status of the process, -1 while it runs      *)
(*   output_exists        whether a file sits at the output path           *)
(*   backup_made          whether os.rename moved it aside                 *)
(*   output_written       how many times pickle.dump wrote the output      *)
(*   written_events       the event count pickle.dump wrote (-1: none)     *)
(*   infile               index of the input file of the for loop          *)
(*   frame                the locals of the running extract_data_oscar     *)
(*   lines_read           the lines the for loop over ifile has consumed   *)
(*   new_events, new_y_spectra, new_pT_spectra   the returned tuple        *)
(*   total_events, y_spectra, pT_spectra         the run totals            *)
(*   returned             the tuples extract_data_oscar returned so far    *)
(***************************************************************************)
VARIABLES max_rapidity, rap_resolution, y_arr, args_type, ninputs, pc, exit_status, output_exists, backup_made,
          output_written, written_events, infile, frame, lines_read,
          new_events, new_y_spectra, new_pT_spectra,
          total_events, y_spectra, pT_spectra, returned

vars == <<max_rapidity, rap_resolution, y_arr, args_type, ninputs, pc, exit_status, output_exists, backup_made,
          output_written, written_events, infile, frame, lines_read,
          new_events, new_y_spectra, new_pT_spectra,
          total_events, y_spectra, pT_spectra, returned>>

(***************************************************************************)
(* Format Adapter (lines 74-87).                                           *)
(***************************************************************************)
KnownTypes == {"SMASH", "BHAC-QGP"}

pdg_idx == IF args_type = "SMASH" THEN 9 ELSE 8

mom_start == IF args_type = "SMASH" THEN 5 ELSE 4

mom_end == mom_start + 4

event_name_identifier == IF args_type = "SMASH" THEN "event" ELSE "Event"

event_start_identifier == IF args_type = "SMASH" THEN "out" ELSE "start"

event_end_identifier == "end"

(***************************************************************************)
(* Histograms.                                                             *)
(***************************************************************************)
Zeros == << >>

Zero3 == <<0, 0, 0>>

Entry(H, key) == IF key \in DOMAIN H THEN H[key] ELSE Zero3

\* H[h, bin, dN_idx] += 1; H[h, bin, v1_idx] += v1; H[h, bin, v2_idx] += v2
AddParticle(H, h, bin, v1, v2) ==
    LET key == <<h, bin>>
        old == Entry(H, key)
    IN  [k \in DOMAIN H \cup {key} |->
            IF k = key
            THEN <<old[dN_idx + 1] + 1, old[v1_idx + 1] + v1, old[v2_idx + 1] + v2>>
            ELSE H[k]]

\* A += B, element-wise
HistAdd(A, B) ==
    [k \in DOMAIN A \cup DOMAIN B |->
        <<Entry(A, k)[1] + Entry(B, k)[1],
          Entry(A, k)[2] + Entry(B, k)[2],
          Entry(A, k)[3] + Entry(B, k)[3]>>]

(***************************************************************************)
(* Arithmetic of the Binning Engine (lines 170-192).                       *)
(***************************************************************************)
RECURSIVE SqrtSearch(_, _, _)
SqrtSearch(n, lo, hi) ==
    IF lo >= hi THEN lo
    ELSE LET mid == (lo + hi + 1) \div 2
         IN  IF mid * mid <= n THEN SqrtSearch(n, mid, hi)
             ELSE SqrtSearch(n, lo, mid - 1)

\* floor(math.sqrt(n)) for 0 <= n < 2^31
ISqrt(n) == SqrtSearch(n, 0, 46340)

\* exp(2*e) for the positive bin edges e = 0.1, 0.3, ..., 5.1 of the rapidity
\* axis, as <<numerator, denominator>>
ExpTwiceEdge ==
    << <<12214, 10000>>, <<18221, 10000>>, <<27183, 10000>>, <<40552, 10000>>,
       <<60496, 10000>>, <<90250, 10000>>, <<13464, 1000>>, <<20086, 1000>>,
       <<29964, 1000>>, <<44701, 1000>>, <<66686, 1000>>, <<99484, 1000>>,
       <<14841, 100>>, <<22141, 100>>, <<33030, 100>>, <<49275, 100>>,
       <<73510, 100>>, <<10966, 10>>, <<16360, 10>>, <<24406, 10>>,
       <<36410, 10>>, <<54317, 10>>, <<81031, 10>>, <<12088, 1>>,
       <<18034, 1>>, <<26903, 1>> >>

\* Whether the rapidity 0.5*log(a/b) (a, b > 0) is at or above edge k of the
\* axis, y_start + k*dy = -5.1 + 0.2*k, for k in 0..ny
AtOrAboveEdge(a, b, k) ==
    IF 2 * k > ny
    THEN LET t == ExpTwiceEdge[k - (ny - 1) \div 2]
         IN  (a * t[2]) \div b >= t[1]
    ELSE LET t == ExpTwiceEdge[(ny + 1) \div 2 - k]
         IN  (b * t[2] + a - 1) \div a <= t[1]

\* int(math.floor((rapidity - y_start)/dy)) with
\* rapidity = 0.5 * math.log((p0+pz)/(p0-pz)); every index below 0 is given
\* as -1 and every index above ny - 1 as ny
RapidityIndex(p0, pz) ==
    LET a == IF p0 + pz > 0 THEN p0 + pz ELSE -(p0 + pz)
        b == IF p0 + pz > 0 THEN p0 - pz ELSE -(p0 - pz)
    IN  Cardinality({k \in 0..ny : AtOrAboveEdge(a, b, k)}) - 1

\* abs(rapidity) < rap_cut: |0.5*log(x)| is below 373 for every positive
\* finite float64 x
WithinRapCut(p0, pz) == 373 < rap_cut

\* int(math.floor((pT - pT_start)/dpT)) with pT = math.sqrt(pT2), pT_start = 0
PTIndex(pT2) == ISqrt(pT2 \div (dpT * dpT))

\* v1 = px / pT, in units of 0.001
V1(px, pT2) == (px * 100000) \div ISqrt(pT2 * 10000)

\* v2 = (px**2 - py**2) / pT2, in units of 0.001
V2(px, py, pT2) == ((px * px - py * py) * 1000) \div pT2

(***************************************************************************)
(* extract_data_oscar (lines 124-194): the locals on entry, and the body   *)
(* of the for loop over the lines of the file.  frame.raised is "" while   *)
(* the function runs, the name of the exception a statement raised, or     *)
(* the sys.exit it reached.                                                *)
(***************************************************************************)
\* lines 125, 131-135
NewFrame ==
    [unfinished_event |-> FALSE,
     events_in_file   |-> 0,
     y_spectra_event  |-> Zeros,
     pT_spectra_event |-> Zeros,
     y_spectra_file   |-> Zeros,
     pT_spectra_file  |-> Zeros,
     raised           |-> ""]

Raise(fr, what) == [fr EXCEPT !.raised = what]

\* Variant of CommitEvent: an event that binned nothing is not counted
CommitEventSkipsEmpty(fr) ==
    [fr EXCEPT !.unfinished_event = FALSE,
               !.events_in_file   = IF fr.y_spectra_event = Zeros
                                       /\ fr.pT_spectra_event = Zeros
                                    THEN @ ELSE @ + 1,
               !.y_spectra_file   = HistAdd(@, fr.y_spectra_event),
               !.y_spectra_event  = Zeros,
               !.pT_spectra_file  = HistAdd(@, fr.pT_spectra_event),
               !.pT_spectra_event = Zeros]

\* lines 145-153: the end label of an event that was begun
CommitEvent(fr) ==
    [fr EXCEPT !.unfinished_event = FALSE,
               !.events_in_file   = @ + 1,
               !.y_spectra_file   = HistAdd(@, fr.y_spectra_event),
               !.y_spectra_event  = Zeros,
               !.pT_spectra_file  = HistAdd(@, fr.pT_spectra_event),
               !.pT_spectra_event = Zeros]

\* Variant of EndLabel: an end label outside an event is passed over
EndLabelIgnoresStray(fr) ==
    IF fr.unfinished_event THEN CommitEvent(fr) ELSE fr

\* lines 144-156: the end label
EndLabel(fr) ==
    IF fr.unfinished_event THEN CommitEvent(fr)
    ELSE Raise(fr, "exit_end_without_start")

\* Variant of StartLabel: what was binned before the label is folded into the
\* file-scoped histograms, with no event counted
StartLabelFlushes(fr) ==
    [fr EXCEPT !.unfinished_event = TRUE,
               !.y_spectra_file   = HistAdd(@, fr.y_spectra_event),
               !.y_spectra_event  = Zeros,
               !.pT_spectra_file  = HistAdd(@, fr.pT_spectra_event),
               !.pT_spectra_event = Zeros]

\* lines 142-143: the start label
StartLabel(fr) == [fr EXCEPT !.unfinished_event = TRUE]

\* Variant of CommentLine: an event comment with another label is passed over
CommentLineSkipsUnknown(fr, line) ==
    IF Len(line) < 2 THEN Raise(fr, "IndexError")
    ELSE IF At(line, 1) = event_name_identifier
    THEN IF Len(line) < 4 THEN Raise(fr, "IndexError")
         ELSE IF At(line, 3) = event_start_identifier
         THEN [fr EXCEPT !.unfinished_event = TRUE]
         ELSE IF At(line, 3) = event_end_identifier
         THEN IF fr.unfinished_event THEN CommitEvent(fr)
              ELSE Raise(fr, "exit_end_without_start")
         ELSE fr
    ELSE fr

\* lines 140-160: a line whose first token begins with "#"
CommentLine(fr, line) ==
    IF Len(line) < 2 THEN Raise(fr, "IndexError")
    ELSE IF At(line, 1) = event_name_identifier
    THEN IF Len(line) < 4 THEN Raise(fr, "IndexError")
         ELSE IF At(line, 3) = event_start_identifier THEN StartLabel(fr)
         ELSE IF At(line, 3) = event_end_identifier THEN EndLabel(fr)
         ELSE Raise(fr, "exit_unknown_label")
    ELSE fr

\* lines 182-185
BinRapidity(H, hadron_index, rapidity_index, pT, v1, v2) ==
    IF rapidity_index >= 0 /\ rapidity_index < ny
       /\ pT >= pT_min_cut /\ pT < pT_max_cut
    THEN AddParticle(H, hadron_index, rapidity_index, v1, v2)
    ELSE H

\* Variant of BinPT: the pT block stands inside the rapidity block, so a
\* particle outside the rapidity axis reaches neither histogram
BinPTInsideRapidityBlock(H, hadron_index, pT_index, p0, pz, v1, v2) ==
    IF RapidityIndex(p0, pz) >= 0 /\ RapidityIndex(p0, pz) < ny
       /\ pT_index >= 0 /\ pT_index < npT /\ WithinRapCut(p0, pz)
    THEN AddParticle(H, hadron_index, pT_index, v1, v2)
    ELSE H

\* lines 187-192
BinPT(H, hadron_index, pT_index, p0, pz, v1, v2) ==
    IF pT_index >= 0 /\ pT_index < npT /\ WithinRapCut(p0, pz)
    THEN AddParticle(H, hadron_index, pT_index, v1, v2)
    ELSE H

\* Variant of BinParticle: the rapidity test is "< 0", so E == |pz| reaches
\* math.log with a zero or infinite argument
BinParticleStrictTest(fr, hadron_index, p0, px, py, pz) ==
    IF (p0 - pz) * (p0 + pz) < 0 THEN fr
    ELSE IF (p0 - pz) * (p0 + pz) = 0 THEN Raise(fr, "ValueError")
    ELSE LET pT2 == px * px + py * py
         IN  IF pT2 = 0 THEN fr
             ELSE LET v1 == V1(px, pT2)
                      v2 == V2(px, py, pT2)
                  IN  [fr EXCEPT
                         !.y_spectra_event =
                             BinRapidity(@, hadron_index, RapidityIndex(p0, pz),
                                         ISqrt(pT2), v1, v2),
                         !.pT_spectra_event =
                             BinPT(@, hadron_index, PTIndex(pT2), p0, pz, v1, v2)]

\* lines 170-192: a hadron with its four-momentum
BinParticle(fr, hadron_index, p0, px, py, pz) ==
    IF (p0 - pz) * (p0 + pz) <= 0 THEN fr
    ELSE LET pT2 == px * px + py * py
         IN  IF pT2 = 0 THEN fr
             ELSE LET v1 == V1(px, pT2)
                      v2 == V2(px, py, pT2)
                  IN  [fr EXCEPT
                         !.y_spectra_event =
                             BinRapidity(@, hadron_index, RapidityIndex(p0, pz),
                                         ISqrt(pT2), v1, v2),
                         !.pT_spectra_event =
                             BinPT(@, hadron_index, PTIndex(pT2), p0, pz, v1, v2)]

\* Variant of ParticleLine: the fields are converted before the species is
\* looked up
ParticleLineParsesFirst(fr, line) ==
    IF Len(line) <= pdg_idx THEN Raise(fr, "IndexError")
    ELSE IF \E k \in 0..3 : ~IsNumeric(At(line, k)) THEN Raise(fr, "ValueError")
    ELSE IF \E k \in mom_start..(mom_end - 1) : ~IsNumeric(At(line, k))
    THEN Raise(fr, "ValueError")
    ELSE IF At(line, pdg_idx) \notin DOMAIN hadrons THEN fr
    ELSE BinParticle(fr, hadrons[At(line, pdg_idx)][1],
                     Float64Table[At(line, mom_start)],
                     Float64Table[At(line, mom_start + 1)],
                     Float64Table[At(line, mom_start + 2)],
                     Float64Table[At(line, mom_start + 3)])

\* lines 162-192: a line that is no comment
ParticleLine(fr, line) ==
    IF Len(line) <= pdg_idx THEN Raise(fr, "IndexError")
    ELSE IF At(line, pdg_idx) \notin DOMAIN hadrons THEN fr
    ELSE IF \E k \in 0..3 : ~IsNumeric(At(line, k)) THEN Raise(fr, "ValueError")
    ELSE IF \E k \in mom_start..(mom_end - 1) : ~IsNumeric(At(line, k))
    THEN Raise(fr, "ValueError")
    ELSE BinParticle(fr, hadrons[At(line, pdg_idx)][1],
                     Float64Table[At(line, mom_start)],
                     Float64Table[At(line, mom_start + 1)],
                     Float64Table[At(line, mom_start + 2)],
                     Float64Table[At(line, mom_start + 3)])

\* lines 139-192: one pass of the for loop
ProcessLine(fr, line) ==
    IF Len(line) = 0 THEN Raise(fr, "IndexError")
    ELSE IF StartsWithHash(At(line, 0)) THEN CommentLine(fr, line)
    ELSE ParticleLine(fr, line)

(***************************************************************************)
(* Input lines: what an input file may hold, per declared format.          *)
(***************************************************************************)
SmashStart == <<"#", "event", "0", "out", "1">>

SmashEnd == <<"#", "event", "0", "end", "0">>

SmashOtherLabel == <<"#", "event", "0", "in", "1">>

SmashHeader == <<"#!OSCAR2013", "particle_lists", "t", "x">>

\* t x y z mass p0 px py pz pdg ID charge
SmashPion ==
    <<"0", "0", "0", "0", "0.138", "0.38", "0.35", "0", "0.02", "211", "1", "1">>

SmashBadNumber ==
    <<"0", "0", "0", "0", "0.138", "0.38", "****", "0", "0.02", "211", "1", "1">>

ShortLine == <<"0", "0", "0">>

BhacStart == <<"#", "Event", "1", "start">>

BhacEnd == <<"#", "Event", "1", "end">>

BhacOtherLabel == <<"#", "Event", "1", "stop">>

BhacHeader == <<"#", "Units:", "fm", "GeV">>

\* t x y z p0 px py pz pdg
BhacPion == <<"0", "0", "0", "0", "0.38", "0.35", "0", "0.02", "211">>

BhacBadNumber == <<"0", "0", "0", "0", "0.38", "****", "0", "0.02", "211">>

StartLine == IF args_type = "SMASH" THEN SmashStart ELSE BhacStart

EndLine == IF args_type = "SMASH" THEN SmashEnd ELSE BhacEnd

OtherLabelLine == IF args_type = "SMASH" THEN SmashOtherLabel ELSE BhacOtherLabel

HeaderLine == IF args_type = "SMASH" THEN SmashHeader ELSE BhacHeader

PionLine == IF args_type = "SMASH" THEN SmashPion ELSE BhacPion

BadNumberLine == IF args_type = "SMASH" THEN SmashBadNumber ELSE BhacBadNumber

\* t x y z mass p0 px py pz pdg ID charge
SmashProton ==
    <<"0", "0", "0", "0", "0.938", "1.6", "0.3", "0.45", "1.2", "2212", "2", "1">>

SmashPhoton ==
    <<"0", "0", "0", "0", "0", "0.35", "****", "0", "0", "22", "3", "0">>

BhacProton == <<"0", "0", "0", "0", "1.6", "0.3", "0.45", "1.2", "2212">>

BhacPhoton == <<"0", "0", "0", "0", "0.35", "****", "0", "0", "22">>

ProtonLine == IF args_type = "SMASH" THEN SmashProton ELSE BhacProton

PhotonLine == IF args_type = "SMASH" THEN SmashPhoton ELSE BhacPhoton

BlankLine == << >>

\* the lines of the files of a run of several files
RunLines ==
    {StartLine, EndLine, OtherLabelLine, PionLine, ProtonLine, BadNumberLine,
     ShortLine}

\* the lines of the file of a run of one file
FileLines == RunLines \cup {HeaderLine, PhotonLine, BlankLine}

(***************************************************************************)
(* The script, top to bottom.                                              *)
(***************************************************************************)
\* The literal None of line 204, as a value no event count takes
(***************************************************************************)
(* The rapidity axis (lines 34-39, 100, 104).  max_rapidity and            *)
(* rap_resolution are in units of 0.1, the bin centres in units of 0.05.   *)
(***************************************************************************)
default_max_rapidity == 51

default_rap_resolution == 2

\* the pairs (max_rapidity, rap_resolution) for which the float64 quotient
\* 2*max_rapidity/dy falls just below the integer it equals in exact
\* arithmetic, e.g. 2*5.1/0.2 = 50.99999999999999
RoundsBelow ==
    {<<3, 1>>, <<3, 2>>, <<6, 1>>, <<6, 2>>, <<6, 4>>, <<7, 1>>, <<7, 2>>,
     <<12, 1>>, <<12, 2>>, <<12, 4>>, <<14, 1>>, <<14, 2>>, <<14, 4>>,
     <<19, 1>>, <<19, 2>>, <<23, 1>>, <<23, 2>>, <<24, 1>>, <<24, 2>>,
     <<24, 4>>, <<28, 1>>, <<28, 2>>, <<28, 4>>, <<29, 1>>, <<29, 2>>,
     <<33, 1>>, <<33, 2>>, <<38, 1>>, <<38, 2>>, <<38, 4>>, <<41, 1>>,
     <<41, 2>>, <<43, 1>>, <<43, 2>>, <<46, 1>>, <<46, 2>>, <<46, 4>>,
     <<48, 1>>, <<48, 2>>, <<48, 4>>, <<51, 1>>, <<51, 2>>, <<53, 1>>,
     <<53, 2>>, <<56, 1>>, <<56, 2>>, <<56, 4>>, <<58, 1>>, <<58, 2>>,
     <<58, 4>>}

\* line 100: int(2*max_rapidity/dy) + 1
NumRapidityBins(max, res) ==
    (2 * max) \div res - (IF <<max, res>> \in RoundsBelow THEN 1 ELSE 0) + 1

NoAxis == [start |-> 0, stop |-> 0, num |-> 0]

\* line 104: np.linspace(-ny*dy/2 + dy/2, ny*dy/2 - dy/2, num = ny)
Linspace(max, res) ==
    [start |-> (res - NumRapidityBins(max, res) * res),
     stop  |-> (NumRapidityBins(max, res) * res - res),
     num   |-> NumRapidityBins(max, res)]

\* the i-th of the evenly spaced samples of an axis, i in 0..num-1
Centre(axis, i) ==
    IF axis.num = 1 THEN axis.start
    ELSE axis.start + (i * (axis.stop - axis.start)) \div (axis.num - 1)

NoneValue == -1

\* Variant of ExitStatus: the zero-events error leaves status 1 as well
ExitStatusAllOne(where) == IF where = "written" THEN 0 ELSE 1

\* The status of each way the process ends: sys.exit(1) at lines 90, 156 and
\* 159, sys.exit(2) at line 216, 1 for an uncaught exception, 0 at the end
ExitStatus(where) ==
    CASE where = "exit_config"            -> 1
      [] where = "exit_end_without_start" -> 1
      [] where = "exit_unknown_label"     -> 1
      [] where = "uncaught_exception"     -> 1
      [] where = "exit_empty"             -> 2
      [] where = "written"                -> 0

Halted == {"exit_config", "exit_end_without_start", "exit_unknown_label",
           "uncaught_exception", "exit_empty", "written"}

InitRun ==
    /\ y_arr = NoAxis
    /\ args_type \in KnownTypes \cup {"UrQMD"}
    /\ ninputs \in 1..MaxFiles
    /\ output_exists \in BOOLEAN
    /\ pc = "select_format"
    /\ exit_status = -1
    /\ backup_made = FALSE
    /\ output_written = 0
    /\ written_events = -1
    /\ infile = 0
    /\ frame = NewFrame
    /\ lines_read = << >>
    /\ new_events = 0
    /\ new_y_spectra = Zeros
    /\ new_pT_spectra = Zeros
    /\ total_events = 0
    /\ y_spectra = Zeros
    /\ pT_spectra = Zeros
    /\ returned = << >>

\* the configuration as it stands in the script (lines 35, 39)
Init ==
    /\ InitRun
    /\ max_rapidity = default_max_rapidity
    /\ rap_resolution = default_rap_resolution

\* Variant of SelectFormat: the type is not tested before the run starts, and
\* any type other than SMASH is read as BHAC-QGP
SelectFormatFallsThrough ==
    /\ pc = "select_format"
    /\ pc' = "backup"
    /\ y_arr' = Linspace(max_rapidity, rap_resolution)
    /\ UNCHANGED <<max_rapidity, rap_resolution, args_type, ninputs, exit_status, output_exists, backup_made,
                   output_written, written_events, infile, frame, lines_read,
                   new_events, new_y_spectra, new_pT_spectra,
                   total_events, y_spectra, pT_spectra, returned>>

\* lines 74-122: the format is selected and the axes are laid out
SelectFormat ==
    /\ pc = "select_format"
    /\ pc' = IF args_type \in KnownTypes THEN "backup" ELSE "exit_config"
    /\ exit_status' = IF args_type \in KnownTypes THEN exit_status
                      ELSE ExitStatus("exit_config")
    /\ y_arr' = IF args_type \in KnownTypes
               THEN Linspace(max_rapidity, rap_resolution) ELSE y_arr
    /\ UNCHANGED <<max_rapidity, rap_resolution, args_type, ninputs, output_exists, backup_made,
                   output_written, written_events, infile, frame, lines_read,
                   new_events, new_y_spectra, new_pT_spectra,
                   total_events, y_spectra, pT_spectra, returned>>

\* lines 196-200
BackupOutput ==
    /\ pc = "backup"
    /\ backup_made' = output_exists
    /\ output_exists' = FALSE
    /\ pc' = "loop"
    /\ UNCHANGED <<max_rapidity, rap_resolution, y_arr, args_type, ninputs, exit_status,
                   output_written, written_events, infile, frame, lines_read,
                   new_events, new_y_spectra, new_pT_spectra,
                   total_events, y_spectra, pT_spectra, returned>>

\* Variant of OpenFile: the event-scoped histograms and the event flag live
\* outside the function and survive from one file to the next
OpenFileKeepsEvents ==
    /\ pc = "loop"
    /\ infile < ninputs
    /\ \E readable \in BOOLEAN :
          IF readable
          THEN /\ pc' = "reading"
               /\ frame' = [NewFrame EXCEPT
                              !.unfinished_event = frame.unfinished_event,
                              !.y_spectra_event = frame.y_spectra_event,
                              !.pT_spectra_event = frame.pT_spectra_event]
               /\ lines_read' = << >>
               /\ UNCHANGED exit_status
          ELSE /\ pc' = "uncaught_exception"
               /\ exit_status' = 1
               /\ UNCHANGED <<frame, lines_read>>
    /\ UNCHANGED <<max_rapidity, rap_resolution, y_arr, args_type, ninputs, output_exists, backup_made,
                   output_written, written_events, infile,
                   new_events, new_y_spectra, new_pT_spectra,
                   total_events, y_spectra, pT_spectra, returned>>

\* lines 202-203, 125-135: the next input file is opened; open() raises
\* when the file cannot be read, and nothing catches it
OpenFile ==
    /\ pc = "loop"
    /\ infile < ninputs
    /\ \E readable \in BOOLEAN :
          IF readable
          THEN /\ pc' = "reading"
               /\ frame' = NewFrame
               /\ lines_read' = << >>
               /\ UNCHANGED exit_status
          ELSE /\ pc' = "uncaught_exception"
               /\ exit_status' = ExitStatus("uncaught_exception")
               /\ UNCHANGED <<frame, lines_read>>
    /\ UNCHANGED <<max_rapidity, rap_resolution, y_arr, args_type, ninputs, output_exists, backup_made,
                   output_written, written_events, infile,
                   new_events, new_y_spectra, new_pT_spectra,
                   total_events, y_spectra, pT_spectra, returned>>

\* Where the script stands after a pass of the for loop over the lines
AfterLine(fr) ==
    IF fr.raised = "" THEN "reading"
    ELSE IF fr.raised \in {"exit_end_without_start", "exit_unknown_label"}
    THEN fr.raised
    ELSE "uncaught_exception"

\* lines 137-192: the next line of the file, drawn from LS
ReadLine(LS, max) ==
    /\ pc = "reading"
    /\ Len(lines_read) < max
    /\ \E line \in LS :
          LET fr == ProcessLine(frame, line)
          IN  /\ frame' = fr
              /\ lines_read' = Append(lines_read, line)
              /\ pc' = AfterLine(fr)
              /\ exit_status' = IF fr.raised = "" THEN exit_status
                                ELSE ExitStatus(AfterLine(fr))
    /\ UNCHANGED <<max_rapidity, rap_resolution, y_arr, args_type, ninputs, output_exists, backup_made,
                   output_written, written_events, infile,
                   new_events, new_y_spectra, new_pT_spectra,
                   total_events, y_spectra, pT_spectra, returned>>

\* Variant of ReturnValue: an event still open at the end of the file is
\* committed
ReturnValueCountsOpenEvent(fr) ==
    LET g == IF fr.unfinished_event THEN CommitEvent(fr) ELSE fr
    IN  [events |-> g.events_in_file, y |-> g.y_spectra_file, pT |-> g.pT_spectra_file]

\* line 194: what extract_data_oscar returns at the end of the file
ReturnValue(fr) ==
    [events |-> fr.events_in_file, y |-> fr.y_spectra_file, pT |-> fr.pT_spectra_file]

\* lines 137, 194, 203: the file is exhausted and the tuple is returned
ReturnFile ==
    /\ pc = "reading"
    /\ new_events' = ReturnValue(frame).events
    /\ new_y_spectra' = ReturnValue(frame).y
    /\ new_pT_spectra' = ReturnValue(frame).pT
    /\ returned' = Append(returned, ReturnValue(frame))
    /\ pc' = "returned"
    /\ UNCHANGED <<max_rapidity, rap_resolution, y_arr, args_type, ninputs, exit_status, output_exists, backup_made,
                   output_written, written_events, infile, frame, lines_read,
                   total_events, y_spectra, pT_spectra>>

\* lines 204-209: whether the loop skips the file
SkipsFile(events) == events = NoneValue \/ events = 0

\* Variant of MergeTotals: the totals are assigned, not added to, and no file
\* is skipped
MergeTotalsAssigns(tot, res) == res

\* Variant of MergeTotals: a file that is not skipped replaces the totals
MergeTotalsReplaces(tot, res) == IF SkipsFile(res.events) THEN tot ELSE res

\* lines 204-212: the run totals after a file's tuple
MergeTotals(tot, res) ==
    IF SkipsFile(res.events) THEN tot
    ELSE [events |-> tot.events + res.events,
          y      |-> HistAdd(tot.y, res.y),
          pT     |-> HistAdd(tot.pT, res.pT)]

\* lines 204-212
MergeFile ==
    /\ pc = "returned"
    /\ LET tot == MergeTotals([events |-> total_events, y |-> y_spectra,
                               pT |-> pT_spectra],
                              [events |-> new_events, y |-> new_y_spectra,
                               pT |-> new_pT_spectra])
       IN  /\ total_events' = tot.events
           /\ y_spectra' = tot.y
           /\ pT_spectra' = tot.pT
    /\ infile' = infile + 1
    /\ pc' = "loop"
    /\ UNCHANGED <<max_rapidity, rap_resolution, y_arr, args_type, ninputs, exit_status, output_exists, backup_made,
                   output_written, written_events, frame, lines_read,
                   new_events, new_y_spectra, new_pT_spectra, returned>>

\* Variant of RunIsEmpty: only a negative total is an error
RunIsEmptyNegative(events) == events < 0

\* line 214: whether the run ends with the zero-events error
RunIsEmpty(events) == events = 0

\* Variant of Finish: the lines after the loop stand inside it, so the end of
\* the run is reached after the first file
FinishInsideLoop ==
    /\ pc = "loop"
    /\ infile >= 1
    /\ IF RunIsEmpty(total_events)
       THEN /\ pc' = "exit_empty"
            /\ exit_status' = 2
            /\ UNCHANGED <<output_exists, output_written, written_events>>
       ELSE /\ pc' = "written"
            /\ exit_status' = 0
            /\ output_exists' = TRUE
            /\ output_written' = output_written + 1
            /\ written_events' = total_events
    /\ UNCHANGED <<max_rapidity, rap_resolution, y_arr, args_type, ninputs, backup_made, infile, frame, lines_read,
                   new_events, new_y_spectra, new_pT_spectra,
                   total_events, y_spectra, pT_spectra, returned>>

\* lines 214-236
Finish ==
    /\ pc = "loop"
    /\ infile = ninputs
    /\ IF RunIsEmpty(total_events)
       THEN /\ pc' = "exit_empty"
            /\ exit_status' = ExitStatus("exit_empty")
            /\ UNCHANGED <<output_exists, output_written, written_events>>
       ELSE /\ pc' = "written"
            /\ exit_status' = ExitStatus("written")
            /\ output_exists' = TRUE
            /\ output_written' = output_written + 1
            /\ written_events' = total_events
    /\ UNCHANGED <<max_rapidity, rap_resolution, y_arr, args_type, ninputs, backup_made, infile, frame, lines_read,
                   new_events, new_y_spectra, new_pT_spectra,
                   total_events, y_spectra, pT_spectra, returned>>

ReadRunLine == ReadLine(RunLines, MaxRunLines)

Next ==
    \/ SelectFormat
    \/ BackupOutput
    \/ OpenFile
    \/ ReadRunLine
    \/ ReturnFile
    \/ MergeFile
    \/ Finish

Spec == Init /\ [][Next]_vars

(***************************************************************************)
(* A run of one input file, with more lines and more kinds of line.        *)
(***************************************************************************)
InitFile == Init /\ ninputs = 1

ReadFileLine == ReadLine(FileLines, MaxLines)

NextFile ==
    \/ SelectFormat
    \/ BackupOutput
    \/ OpenFile
    \/ ReadFileLine
    \/ ReturnFile
    \/ MergeFile
    \/ Finish

SpecFile == InitFile /\ [][NextFile]_vars

\* extract_data_oscar on a whole file: the for loop from the locals on entry,
\* left at the first statement that raises or exits
RECURSIVE RunLoop(_, _)
RunLoop(fr, lines) ==
    IF lines = << >> \/ fr.raised # "" THEN fr
    ELSE RunLoop(ProcessLine(fr, Head(lines)), Tail(lines))

ExtractDataOscar(lines) == RunLoop(NewFrame, lines)

(***************************************************************************)
(* A run of one well-typed input file of event labels and particle lines   *)
(* that probe the Binning Engine: inside and outside either axis, with no  *)
(* rapidity, with no transverse momentum.                                  *)
(***************************************************************************)
\* a pion line with the given momentum tokens, in the layout of the format
PionWith(p0, px, py, pz) ==
    IF args_type = "SMASH"
    THEN <<"0", "0", "0", "0", "0.138", p0, px, py, pz, "211", "1", "1">>
    ELSE <<"0", "0", "0", "0", p0, px, py, pz, "211">>

\* pT = 4.5 GeV, beyond the pT axis; rapidity 0.05
HighPTLine == PionWith("5.0", "4.5", "0", "0.45")

\* rapidity 5.15, beyond the rapidity axis; pT = 0.35 GeV
ForwardLine == PionWith("150.01", "0.35", "0", "150.0")

\* beyond both axes
ForwardHighPTLine == PionWith("150.01", "4.5", "0", "150.0")

\* E == |pz|
MasslessLine == PionWith("1.0", "0.35", "0", "-1.0")

\* (E - pz)*(E + pz) < 0
SpacelikeLine == PionWith("0.02", "0.35", "0", "0.38")

\* px == py == 0
PTZeroLine == PionWith("0.38", "0", "0.0", "0.02")

BinLines ==
    {StartLine, EndLine, PionLine, HighPTLine, ForwardLine, ForwardHighPTLine,
     MasslessLine, SpacelikeLine, PTZeroLine}

InitBin == Init /\ args_type \in KnownTypes /\ ninputs = 1 /\ ~output_exists

ReadBinLine == ReadLine(BinLines, MaxBinLines)

NextBin ==
    \/ SelectFormat
    \/ BackupOutput
    \/ OpenFile
    \/ ReadBinLine
    \/ ReturnFile
    \/ MergeFile
    \/ Finish

SpecBin == InitBin /\ [][NextBin]_vars

(***************************************************************************)
(* The layout of the rapidity axis for a range of bin widths and           *)
(* half-extents: the configuration is drawn, the script lays out the axis. *)
(***************************************************************************)
InitAxis ==
    /\ InitRun
    /\ args_type \in KnownTypes
    /\ ninputs = 1
    /\ ~output_exists
    /\ max_rapidity \in 1..MaxHalfExtent
    /\ rap_resolution \in 1..MaxWidth

NextAxis == SelectFormat

SpecAxis == InitAxis /\ [][NextAxis]_vars

(***************************************************************************)
(* Vocabulary of the properties.                                           *)
(***************************************************************************)
IsEventLabel(line) ==
    /\ Len(line) >= 4
    /\ StartsWithHash(At(line, 0))
    /\ At(line, 1) = event_name_identifier

IsStartLabel(line) == IsEventLabel(line) /\ At(line, 3) = event_start_identifier

IsEndLabel(line) == IsEventLabel(line) /\ At(line, 3) = event_end_identifier

IsOtherLabel(line) == IsEventLabel(line) /\ ~IsStartLabel(line) /\ ~IsEndLabel(line)

IsParticleLine(line) == Len(line) > 0 /\ ~StartsWithHash(At(line, 0))

\* the step consumes one more line of the current file
ReadsALine == pc = "reading" /\ Len(lines_read') = Len(lines_read) + 1

LastLine(lines) == lines[Len(lines)]

Totals == [events |-> total_events, y |-> y_spectra, pT |-> pT_spectra]

Returned == [events |-> new_events, y |-> new_y_spectra, pT |-> new_pT_spectra]

\* The file-scoped result the event rule of the data model prescribes: a
\* start label opens a fresh event, particles count only inside an event,
\* and only the end label of that event folds them into the file
RECURSIVE CleanEvents(_, _)
CleanEvents(fr, lines) ==
    IF lines = << >> THEN fr
    ELSE LET line == Head(lines)
             nxt  == IF IsStartLabel(line)
                     THEN [fr EXCEPT !.unfinished_event = TRUE,
                                     !.y_spectra_event = Zeros,
                                     !.pT_spectra_event = Zeros]
                     ELSE IF IsParticleLine(line) /\ ~fr.unfinished_event THEN fr
                     ELSE ProcessLine(fr, line)
         IN  CleanEvents(nxt, Tail(lines))

(***************************************************************************)
(* C1.  While a file is read and when it is returned, the file-scoped      *)
(* histograms hold exactly the particles of the events that reached their  *)
(* own end label: particles outside an event, and particles of an event    *)
(* that was never closed, contribute nothing.                              *)
(***************************************************************************)
C1_OnlyCleanEventsReachFile ==
    (pc \in {"reading", "returned"} /\ frame.raised = "") =>
        /\ frame.y_spectra_file = CleanEvents(NewFrame, lines_read).y_spectra_file
        /\ frame.pT_spectra_file = CleanEvents(NewFrame, lines_read).pT_spectra_file

\* the indices of the start labels that follow the last end label
TrailingStarts(lines) ==
    {i \in 1..Len(lines) :
        /\ IsStartLabel(lines[i])
        /\ \A j \in i..Len(lines) : ~IsEndLabel(lines[j])}

(***************************************************************************)
(* C2.  When the file ends inside an event, the returned event count and   *)
(* histograms are those of the same file cut before the start label of     *)
(* the unterminated event (whichever start label after the last end label  *)
(* is taken as its beginning).                                             *)
(***************************************************************************)
C2_TrailingEventDiscarded ==
    (pc = "returned" /\ frame.unfinished_event) =>
        /\ TrailingStarts(lines_read) # {}
        /\ \A i \in TrailingStarts(lines_read) :
              Returned = ReturnValue(ExtractDataOscar(SubSeq(lines_read, 1, i - 1)))

C2_Witness ==
    /\ pc = "returned"
    /\ frame.unfinished_event
    /\ new_events >= 1
    /\ frame.y_spectra_event # Zeros

(***************************************************************************)
(* C3.  An end label read outside an event halts the run on that line with *)
(* the structural parse error: the run totals are left as they were,       *)
(* nothing is written, and no step follows.                                *)
(***************************************************************************)
C3_EndWithoutStartIsFatal ==
    [][/\ (ReadsALine /\ ~frame.unfinished_event /\ IsEndLabel(LastLine(lines_read')))
          => /\ pc' = "exit_end_without_start"
             /\ exit_status' = 1
             /\ output_written' = 0
             /\ ~output_exists'
             /\ Totals' = Totals
       /\ pc # "exit_end_without_start"]_vars

C3_Witness ==
    /\ pc = "exit_end_without_start"
    /\ total_events > 0
    /\ infile > 0
    /\ output_written = 0

(***************************************************************************)
(* C4.  An event comment whose label is neither the start nor the end      *)
(* label halts the run with the unknown-label error, inside an event and   *)
(* outside: nothing is written and no step follows.                        *)
(***************************************************************************)
C4_UnknownLabelIsFatal ==
    [][/\ (ReadsALine /\ IsOtherLabel(LastLine(lines_read')))
          => /\ pc' = "exit_unknown_label"
             /\ exit_status' = 1
             /\ output_written' = 0
             /\ ~output_exists'
             /\ Totals' = Totals
       /\ pc # "exit_unknown_label"]_vars

C4_Witness ==
    /\ pc = "exit_unknown_label"
    /\ frame.unfinished_event
    /\ frame.events_in_file > 0
    /\ output_written = 0

(***************************************************************************)
(* C5.  A particle line read outside an event is fatal: it halts the run   *)
(* and leaves the event-scoped histograms as they were.                    *)
(***************************************************************************)
C5_ParticleOutsideEventIsFatal ==
    [][(ReadsALine /\ ~frame.unfinished_event /\ IsParticleLine(LastLine(lines_read')))
          => /\ pc' \in Halted
             /\ frame'.y_spectra_event = frame.y_spectra_event
             /\ frame'.pT_spectra_event = frame.pT_spectra_event]_vars

\* the step is a file-level failure: open() raises, or a line of the file
\* cannot be parsed (too few fields, a field that is no number)
FileLevelFailure ==
    \/ pc = "loop" /\ infile < ninputs /\ pc' # "reading"
    \/ ReadsALine /\ frame'.raised \in {"IndexError", "ValueError"}

(***************************************************************************)
(* C6.  A file-level failure is recovered: the loop goes on with the next  *)
(* input file, the run totals are unchanged and the run is not halted.     *)
(***************************************************************************)
C6_FileFailureIsSkipped ==
    [][FileLevelFailure
          => /\ pc' = "loop"
             /\ infile' = infile + 1
             /\ Totals' = Totals
             /\ exit_status' = -1]_vars

(***************************************************************************)
(* C7.  A file that returns zero events is skipped: the loop goes on with  *)
(* the next file, the run totals and the exit status are unchanged; and    *)
(* once every file is done the run writes its output whenever some file    *)
(* returned at least one event.                                            *)
(***************************************************************************)
C7_EmptyFileIsSkipped ==
    [][/\ (pc = "returned" /\ new_events = 0)
          => /\ pc' = "loop"
             /\ infile' = infile + 1
             /\ Totals' = Totals
             /\ exit_status' = -1
       /\ (pc = "loop" /\ infile = ninputs
           /\ \E i \in DOMAIN returned : returned[i].events > 0)
          => /\ pc' = "written"
             /\ written_events' = total_events]_vars

C7_Witness ==
    /\ pc = "written"
    /\ Len(returned) = 2
    /\ returned[1].events > 0
    /\ returned[2].events = 0
    /\ written_events = returned[1].events

(***************************************************************************)
(* C8.  The run ends with the zero-events error, writing nothing, exactly  *)
(* when the total of committed events over all input files is 0; it ends   *)
(* with the output written once exactly when that total is positive.       *)
(***************************************************************************)
C8_FailsIffNoEvents ==
    /\ pc = "exit_empty"
          => /\ Len(returned) = ninputs
             /\ total_events = 0
             /\ \A i \in DOMAIN returned : returned[i].events = 0
             /\ output_written = 0
             /\ ~output_exists
             /\ exit_status = 2
    /\ pc = "written"
          => /\ Len(returned) = ninputs
             /\ total_events > 0
             /\ \E i \in DOMAIN returned : returned[i].events > 0
             /\ output_written = 1
    /\ output_written > 0 => pc = "written"

C8_Witness ==
    /\ pc = "exit_empty"
    /\ Len(returned) = 2
    /\ frame.y_spectra_event # Zeros

FatalExits == {"exit_config", "exit_end_without_start", "exit_unknown_label",
               "exit_empty"}

\* the error category of a fatal exit
Category(where) ==
    IF where \in {"exit_end_without_start", "exit_unknown_label"}
    THEN "structural" ELSE where

(***************************************************************************)
(* C9 as stated.  The status a fatal exit leaves differs from the status   *)
(* of every fatal exit of another category.                                *)
(***************************************************************************)
C9_StatusPerCategory ==
    pc \in FatalExits =>
        \A w \in FatalExits :
            Category(w) # Category(pc) => ExitStatus(w) # exit_status

(***************************************************************************)
(* C9, amended.  A configuration error, a structural parse error and an    *)
(* uncaught exception all leave status 1; the zero-events error leaves     *)
(* status 2, which no other error exit leaves.                             *)
(***************************************************************************)
C9_EmptyRunStatusIsDistinct ==
    /\ pc \in {"exit_config", "exit_end_without_start", "exit_unknown_label",
               "uncaught_exception"}
          => exit_status = 1 /\ exit_status # ExitStatus("exit_empty")
    /\ pc = "exit_empty"
          => /\ exit_status = 2
             /\ \A w \in Halted \ {"exit_empty", "written"} : ExitStatus(w) # exit_status

C9_Witness == pc = "exit_empty" /\ exit_status = 2 /\ Len(returned) = 2

ZeroTotals == [events |-> 0, y |-> Zeros, pT |-> Zeros]

(***************************************************************************)
(* C10.  What a file returns is what extract_data_oscar yields on its      *)
(* lines from fresh locals, whatever files came before; and after two      *)
(* files that each returned an event, the run totals are the element-wise  *)
(* sum of the totals of each file alone, and the totals of the two files   *)
(* taken in the other order.                                               *)
(***************************************************************************)
C10_RunAdditivity ==
    /\ pc = "returned" => Returned = ReturnValue(ExtractDataOscar(lines_read))
    /\ (pc = "loop" /\ Len(returned) = 2
        /\ returned[1].events > 0 /\ returned[2].events > 0)
          => LET A == MergeTotals(ZeroTotals, returned[1])
                 B == MergeTotals(ZeroTotals, returned[2])
             IN  /\ Totals = [events |-> A.events + B.events,
                              y      |-> HistAdd(A.y, B.y),
                              pT     |-> HistAdd(A.pT, B.pT)]
                 /\ Totals = MergeTotals(B, returned[1])

C10_Witness ==
    /\ pc = "loop"
    /\ Len(returned) = 2
    /\ returned[1].events > 0
    /\ returned[2].events > 0
    /\ returned[1].y # returned[2].y
    /\ returned[1].y # Zeros
    /\ returned[2].y # Zeros

(***************************************************************************)
(* C11.  With a type that is neither SMASH nor BHAC-QGP the script goes    *)
(* from the format selection straight to sys.exit(1): no input file is     *)
(* opened, no line read, an existing output file is not renamed, and       *)
(* nothing is written.                                                     *)
(***************************************************************************)
C11_UnknownTypeFailsFirst ==
    args_type \notin KnownTypes =>
        /\ pc \in {"select_format", "exit_config"}
        /\ pc = "exit_config" => exit_status = 1
        /\ ~backup_made
        /\ output_written = 0
        /\ infile = 0
        /\ lines_read = << >>
        /\ returned = << >>
        /\ frame = NewFrame
        /\ Totals = ZeroTotals

C11_Witness ==
    /\ pc = "exit_config"
    /\ args_type \notin KnownTypes
    /\ output_exists
    /\ ~backup_made

\* observable k (1: dN, 2: v1 sum, 3: v2 sum) of no entry of H is larger than
\* in G
NoEntryDecreases(H, G, k) ==
    \A key \in DOMAIN H \cup DOMAIN G : Entry(G, key)[k] >= Entry(H, key)[k]

\* the step stays within one call of extract_data_oscar
SameFile == pc \in {"reading", "returned"}

(***************************************************************************)
(* C12 as stated.  No entry (count, v1 sum, v2 sum) of a file-scoped or    *)
(* run-scoped histogram ever decreases, and neither does the event count   *)
(* of the file or of the run.                                              *)
(***************************************************************************)
C12_NothingDecreases ==
    [][/\ total_events' >= total_events
       /\ \A k \in 1..3 : /\ NoEntryDecreases(y_spectra, y_spectra', k)
                          /\ NoEntryDecreases(pT_spectra, pT_spectra', k)
       /\ SameFile =>
             /\ frame'.events_in_file >= frame.events_in_file
             /\ \A k \in 1..3 :
                   /\ NoEntryDecreases(frame.y_spectra_file, frame'.y_spectra_file, k)
                   /\ NoEntryDecreases(frame.pT_spectra_file, frame'.pT_spectra_file, k)]_vars

(***************************************************************************)
(* C12, amended.  No count of a file-scoped or run-scoped histogram ever   *)
(* decreases, and neither does the event count of the file or of the run.  *)
(* (The v1 and v2 sums are sums of signed numbers and may decrease.)       *)
(***************************************************************************)
C12_CountsNeverDecrease ==
    [][/\ total_events' >= total_events
       /\ NoEntryDecreases(y_spectra, y_spectra', 1)
       /\ NoEntryDecreases(pT_spectra, pT_spectra', 1)
       /\ SameFile =>
             /\ frame'.events_in_file >= frame.events_in_file
             /\ NoEntryDecreases(frame.y_spectra_file, frame'.y_spectra_file, 1)
             /\ NoEntryDecreases(frame.pT_spectra_file, frame'.pT_spectra_file, 1)]_vars

C12_Witness ==
    /\ pc = "loop"
    /\ Len(returned) = 2
    /\ total_events = 2
    /\ \E key \in DOMAIN y_spectra : y_spectra[key][dN_idx + 1] = 2
    /\ \E key \in DOMAIN y_spectra : y_spectra[key][v2_idx + 1] < 0

\* the sum of the event counts of the returned tuples the loop did not skip
RECURSIVE EventsOfUnskipped(_)
EventsOfUnskipped(tuples) ==
    IF tuples = << >> THEN 0
    ELSE (IF tuples[1].events = 0 THEN 0 ELSE tuples[1].events)
         + EventsOfUnskipped(Tail(tuples))

(***************************************************************************)
(* C13.  The output is written at most once, only when every input file    *)
(* has returned, and the event count written is the sum of the counts of   *)
(* the files that were not skipped; the run totals change only in the step *)
(* that merges a returned file, by that file's whole result.               *)
(***************************************************************************)
C13_WrittenOnceAfterAllFiles ==
    [][/\ output_written' # output_written
          => /\ output_written = 0
             /\ output_written' = 1
             /\ infile = ninputs
             /\ Len(returned) = ninputs
             /\ written_events' = EventsOfUnskipped(returned)
             /\ written_events' = total_events
       /\ Totals' # Totals
          => /\ pc = "returned"
             /\ total_events' = total_events + new_events
             /\ \A key \in DOMAIN y_spectra' \cup DOMAIN new_y_spectra :
                   \A k \in 1..3 :
                      Entry(y_spectra', key)[k]
                         = Entry(y_spectra, key)[k] + Entry(new_y_spectra, key)[k]
             /\ \A key \in DOMAIN pT_spectra' \cup DOMAIN new_pT_spectra :
                   \A k \in 1..3 :
                      Entry(pT_spectra', key)[k]
                         = Entry(pT_spectra, key)[k] + Entry(new_pT_spectra, key)[k]]_vars

C13_Witness ==
    /\ pc = "written"
    /\ Len(returned) = 2
    /\ returned[1].events > 0
    /\ returned[2].events > 0
    /\ written_events = returned[1].events + returned[2].events
    /\ output_written = 1

\* a particle line of a registered species whose fields parse
IsHadronLine(line) ==
    /\ IsParticleLine(line)
    /\ Len(line) > pdg_idx
    /\ At(line, pdg_idx) \in DOMAIN hadrons
    /\ \A k \in (0..3) \cup (mom_start..(mom_end - 1)) : IsNumeric(At(line, k))

\* energy, px, py, pz of a hadron line
Mom(line) ==
    [p0 |-> Float64Table[At(line, mom_start)],
     px |-> Float64Table[At(line, mom_start + 1)],
     py |-> Float64Table[At(line, mom_start + 2)],
     pz |-> Float64Table[At(line, mom_start + 3)]]

HasRapidity(m) == (m.p0 - m.pz) * (m.p0 + m.pz) > 0

HasPT(m) == m.px * m.px + m.py * m.py # 0

\* G is H with <<1, v1, v2>> added at key when hit, and H itself otherwise
OnlyChange(H, G, key, hit, v1, v2) ==
    \A k \in DOMAIN H \cup DOMAIN G \cup {key} :
        Entry(G, k) = IF hit /\ k = key
                      THEN <<Entry(H, k)[1] + 1, Entry(H, k)[2] + v1, Entry(H, k)[3] + v2>>
                      ELSE Entry(H, k)

(***************************************************************************)
(* C14.  A line of a registered species with a rapidity and a non-zero pT  *)
(* adds <<1, v1, v2>> to the event-scoped rapidity histogram at its hadron *)
(* index and rapidity bin exactly when that bin is in [0, ny) and pT is in *)
(* [pT_min_cut, pT_max_cut), and to the event-scoped pT histogram at its   *)
(* pT bin exactly when that bin is in [0, npT) and |rapidity| < rap_cut;   *)
(* each decision is taken without the other, and no other entry changes.   *)
(***************************************************************************)
C14_BinAcceptance ==
    [][(ReadsALine /\ IsHadronLine(LastLine(lines_read'))
        /\ HasRapidity(Mom(LastLine(lines_read')))
        /\ HasPT(Mom(LastLine(lines_read'))))
          => LET line == LastLine(lines_read')
                 m    == Mom(line)
                 h    == hadrons[At(line, pdg_idx)][1]
                 pT2  == m.px * m.px + m.py * m.py
                 ri   == RapidityIndex(m.p0, m.pz)
                 pi   == PTIndex(pT2)
                 inY  == /\ ri \in 0..(ny - 1)
                         /\ ISqrt(pT2) >= pT_min_cut
                         /\ ISqrt(pT2) < pT_max_cut
                 inPT == pi \in 0..(npT - 1) /\ WithinRapCut(m.p0, m.pz)
             IN  /\ OnlyChange(frame.y_spectra_event, frame'.y_spectra_event,
                               <<h, ri>>, inY, V1(m.px, pT2), V2(m.px, m.py, pT2))
                 /\ OnlyChange(frame.pT_spectra_event, frame'.pT_spectra_event,
                               <<h, pi>>, inPT, V1(m.px, pT2), V2(m.px, m.py, pT2))]_vars

C14_Witness ==
    /\ lines_read = <<StartLine, HighPTLine, ForwardLine, ForwardHighPTLine>>
    /\ DOMAIN frame.y_spectra_event = {<<0, 25>>}
    /\ DOMAIN frame.pT_spectra_event = {<<0, 3>>}
    /\ frame.raised = ""

(***************************************************************************)
(* C15.  A line of a registered species with px = py = 0, or with          *)
(* (E - pz) * (E + pz) <= 0, changes nothing: the event-scoped and the     *)
(* file-scoped histograms, the event counter and the tracker state are     *)
(* what they were, no error is raised and the loop goes on.                *)
(***************************************************************************)
C15_ExcludedParticleChangesNothing ==
    [][(ReadsALine /\ IsHadronLine(LastLine(lines_read'))
        /\ (~HasRapidity(Mom(LastLine(lines_read')))
            \/ ~HasPT(Mom(LastLine(lines_read')))))
          => /\ frame' = frame
             /\ pc' = "reading"
             /\ exit_status' = exit_status]_vars

C15_Witness ==
    /\ lines_read = <<StartLine, PionLine, MasslessLine, PTZeroLine>>
    /\ pc = "reading"
    /\ frame.unfinished_event
    /\ DOMAIN frame.y_spectra_event = {<<0, 25>>}
    /\ DOMAIN frame.pT_spectra_event = {<<0, 3>>}

\* G = A + B, entry by entry
IsSum(G, A, B) ==
    \A k \in DOMAIN G \cup DOMAIN A \cup DOMAIN B :
        /\ Entry(G, k)[1] = Entry(A, k)[1] + Entry(B, k)[1]
        /\ Entry(G, k)[2] = Entry(A, k)[2] + Entry(B, k)[2]
        /\ Entry(G, k)[3] = Entry(A, k)[3] + Entry(B, k)[3]

AllZero(H) == \A k \in DOMAIN H : H[k] = Zero3

\* lines_read is one start label, particle lines only, one end label
SingleBlock ==
    /\ Len(lines_read) >= 2
    /\ IsStartLabel(lines_read[1])
    /\ IsEndLabel(LastLine(lines_read))
    /\ \A i \in 2..(Len(lines_read) - 1) : IsParticleLine(lines_read[i])

\* the event-scoped accumulation of the particle lines of a single block
Accumulated == RunLoop(StartLabel(NewFrame), SubSeq(lines_read, 2, Len(lines_read) - 1))

(***************************************************************************)
(* C17.  An end label read inside an event adds each event-scoped          *)
(* histogram to its file-scoped histogram entry by entry, leaves both      *)
(* event-scoped histograms all zero, raises the file event counter by      *)
(* exactly 1 whether or not the event binned a particle, and leaves the    *)
(* tracker outside an event; and a file that is a single start/end block   *)
(* returns one event and the accumulation of the block's particles.        *)
(***************************************************************************)
C17_CommitStep ==
    /\ [][(ReadsALine /\ IsEndLabel(LastLine(lines_read')) /\ frame.unfinished_event)
            => /\ IsSum(frame'.y_spectra_file, frame.y_spectra_file, frame.y_spectra_event)
               /\ IsSum(frame'.pT_spectra_file, frame.pT_spectra_file, frame.pT_spectra_event)
               /\ AllZero(frame'.y_spectra_event)
               /\ AllZero(frame'.pT_spectra_event)
               /\ frame'.events_in_file = frame.events_in_file + 1
               /\ ~frame'.unfinished_event
               /\ pc' = "reading"]_vars
    /\ []((pc = "returned" /\ SingleBlock /\ Accumulated.raised = "")
            => /\ new_events = 1
               /\ IsSum(new_y_spectra, Accumulated.y_spectra_event, Zeros)
               /\ IsSum(new_pT_spectra, Accumulated.pT_spectra_event, Zeros))

C17_Witness ==
    /\ pc = "returned"
    /\ lines_read = <<StartLine, PionLine, ProtonLine, EndLine>>
    /\ new_events = 1
    /\ Cardinality(DOMAIN new_y_spectra) = 2
    /\ Cardinality(DOMAIN new_pT_spectra) = 2

(***************************************************************************)
(* C18.  While a file is read and the tracker is outside an event, both    *)
(* event-scoped histograms are all zero; so they are all zero whenever a   *)
(* start label opens an event.                                             *)
(***************************************************************************)
C18_EventHistogramsZeroOutsideEvent ==
    (pc = "reading" /\ ~frame.unfinished_event)
        => AllZero(frame.y_spectra_event) /\ AllZero(frame.pT_spectra_event)

\* a particle line that has a species field, of a species not registered
IsUnknownSpeciesLine(line) ==
    /\ IsParticleLine(line)
    /\ Len(line) > pdg_idx
    /\ At(line, pdg_idx) \notin DOMAIN hadrons

(***************************************************************************)
(* C19.  A particle line of a species that is not registered is passed     *)
(* over without an error, whatever its other fields hold: the tracker      *)
(* state, the event counter and every histogram stay as they were and the  *)
(* loop goes on to the next line.                                          *)
(***************************************************************************)
C19_UnknownSpeciesIsIgnored ==
    [][(ReadsALine /\ IsUnknownSpeciesLine(LastLine(lines_read')))
          => /\ frame' = frame
             /\ pc' = "reading"
             /\ exit_status' = exit_status]_vars

C19_Witness ==
    /\ lines_read = <<StartLine, PionLine, PhotonLine>>
    /\ \E k \in mom_start..(mom_end - 1) : ~IsNumeric(At(PhotonLine, k))
    /\ pc = "reading"
    /\ frame.unfinished_event
    /\ frame.y_spectra_event # Zeros
    /\ frame.raised = ""

(***************************************************************************)
(* C20.  A file that returns a committed event count of 0 returns two      *)
(* all-zero file-scoped histograms, whatever its lines were: particle      *)
(* lines outside an event and a trailing event without end label leave     *)
(* nothing in them.  While the file is read, the file-scoped histograms    *)
(* are all zero as long as no event was committed.                         *)
(***************************************************************************)
C20_NoEventsNoContent ==
    /\ (pc = "returned" /\ new_events = 0)
          => AllZero(new_y_spectra) /\ AllZero(new_pT_spectra)
    /\ (pc = "reading" /\ frame.events_in_file = 0)
          => AllZero(frame.y_spectra_file) /\ AllZero(frame.pT_spectra_file)

C20_Witness ==
    /\ pc = "returned"
    /\ new_events = 0
    /\ lines_read = <<PionLine, StartLine, ProtonLine>>
    /\ frame.unfinished_event
    /\ Cardinality(DOMAIN frame.y_spectra_event) = 2
    /\ new_y_spectra = Zeros
    /\ new_pT_spectra = Zeros

(***************************************************************************)
(* C16.  Whatever the positive bin width and half-extent, the rapidity     *)
(* axis the script lays out has an odd number of bins, is symmetric about  *)
(* 0, and has 0 as the centre of its central bin.                          *)
(***************************************************************************)
C16_ZeroIsCentreOfCentralBin ==
    (y_arr # NoAxis)
        => /\ y_arr.num % 2 = 1
           /\ \A i \in 0..(y_arr.num - 1) :
                 Centre(y_arr, i) = -Centre(y_arr, y_arr.num - 1 - i)
           /\ Centre(y_arr, (y_arr.num - 1) \div 2) = 0

=============================================================================
